---- MODULE Spec2Model ----
(***************************************************************************)
(* Verification model of kssthread.                                        *)
(*                                                                         *)
(*   ActionQueue / RepeatingAction   Sources/action_queue.cpp (1..290)     *)
(*   Barrier, Condition              Sources/synchronizer.cpp and the      *)
(*                                   templates of synchronizer.hpp         *)
(*   interruptible                   interruptible.cpp                     *)
(*                                                                         *)
(* Every critical section (the code run between acquiring and releasing    *)
(* or waiting on a mutex) is one action.  A thread that sits in a          *)
(* condition_variable wait is "blocked"; notify_all turns it into "woken", *)
(* and its next action is the code that runs once it holds the mutex       *)
(* again.  Each component has its own specification; the variables of the  *)
(* other components keep their initial values there.                       *)
(***************************************************************************)
EXTENDS Integers, Sequences, FiniteSets, TLC

\* ---------------------------------------------------------------- bounds
\* largest delay (in clock ticks) a caller passes to addAction
MaxDelay == 1
\* the constructor argument ActionQueue(maxPending)
maxPending == 2
\* the interval (in ticks) of the one RepeatingAction bound to the queue
timeInterval == 1
\* how far (in ticks) the clock may run past a pending action's targetTime
MaxOverdue == timeInterval

VARIABLES
    \* ---- ActionQueue::Impl
    pendingActions,   \* multimap in iteration order: <<[targetTime, identifier, ord]>>
    stopping,
    waiting,
    runningAction,
    \* ---- threads that use the queue
    schedPc,          \* position of actionThread in runActionThread
    currentAction,    \* the callable moved out of the entry that was taken
    inFlight,         \* number of actions taken by the thread and not finished
    waitPc,           \* position of each caller of wait()
    dtorPc,           \* position of ~ActionQueue
    aborted,          \* a contract check has failed (the process is gone)
    \* ---- RepeatingAction
    raPc,             \* lifetime of the RepeatingAction object
    raStopping,       \* RepeatingAction::stopping
    raRetried,        \* the wrapper being executed has called internalAction() again
    \* ---- Barrier
    counter,          \* Barrier::counter (unsigned), as a signed representative
    barPc,            \* position of each party
    barKind,          \* the call a party is in: "wait" or "timed"
    barResult,        \* what the party's last call returned
    barCounted,       \* the party's ++counter has not been undone
    barReleased,      \* the threshold was reached while the party was in its call
    \* ---- Condition
    predValue,        \* the value pred() returns
    condPc,           \* position of each caller
    condKind,         \* the call a caller is in: "wait" or "timed"
    condResult,       \* what the caller's last call returned
    condPredAtReturn, \* pred() at the moment the caller's last call returned
    \* ---- interruptible (one thread and the threads that interrupt it)
    platform,         \* the build: "linux" (__linux) or "apple" (__APPLE__)
    thrPc,            \* "running", "cancelling" or "terminated"
    frames,           \* the doCall frames of the thread, innermost last
    onInterruptedFns, \* the thread_local list of handlers
    cancelPending,    \* pthread_cancel has been requested and not acted upon
    cancelState,      \* the thread's pthread cancel state
    nextFn,           \* the name the next registered handler gets
    ran,              \* the handlers invoked by the cancellation, in order
    delivered,        \* a cancellation has been acted upon
    cancelledRegion,  \* the handlers registered in the region that was cancelled
    exception,        \* the exception that is propagating on the thread
    observed,         \* the exception the caller of interruptible caught last
    \* ---- one call of ActionQueue::cancel on a given pending set
    cancelCall,       \* the pending set and identifier of the call, and its outcome
    \* ---- the caller of ActionQueue::addActionAfter
    addCall,          \* how the caller's last call ended
    \* ---- ActionThread
    atBuild,          \* "debug" (assert is compiled in) or "ndebug"
    atWorker,         \* the packaged_task in worker, NoTask when not callable
    atStopping,       \* ActionThread::stopping
    atPc,             \* position of workerThread
    atLocal,          \* the packaged_task in localWorker
    atDtorPc,         \* position of ~ActionThread
    atNext,           \* the name the next task gets (tasks are named in order)
    atRan,            \* the tasks that have been run, in order
    atActive,         \* the tasks that have started and not finished
    atAccepted,       \* the tasks installed in an empty slot and not replaced
    atAborted         \* an assertion has failed

queueVars == <<pendingActions, stopping, waiting, runningAction, schedPc,
               currentAction, inFlight, waitPc, dtorPc, aborted, raPc,
               raStopping, raRetried>>

barrierVars == <<counter, barPc, barKind, barResult, barCounted, barReleased>>

condVars == <<predValue, condPc, condKind, condResult, condPredAtReturn>>

intrVars == <<platform, thrPc, frames, onInterruptedFns, cancelPending, cancelState,
              nextFn, ran, delivered, cancelledRegion, exception, observed>>

atVars == <<atBuild, atWorker, atStopping, atPc, atLocal, atDtorPc, atNext, atRan,
            atActive, atAccepted, atAborted>>

vars == <<queueVars, barrierVars, condVars, intrVars, cancelCall, addCall, atVars>>

\* =====================================================================
\*                            ActionQueue
\* =====================================================================
\* the threads that call wait()
WaitThreads == {1, 2}

\* ActionQueue::all, one caller-chosen identifier, and the UUID that
\* RepeatingAction::init generates
all == ""
UserIdentifiers == {all, "a"}
raIdentifier == "r"

NoAction == "none"

\* the callable of a pending entry: the RepeatingAction's internalAction
\* for the entry that init or the wrapper submitted, the caller's function
\* for every other entry
ActionOf(e) == IF e.identifier = raIdentifier THEN "internalAction" ELSE "action"

\* targetTime is kept relative to the clock: an entry created with
\* now() + delay holds delay, and every tick of the clock lowers it by one.
\* An entry is due (cit->first <= currentTime) when its targetTime is <= 0.
IsDueAhead(e) == e.targetTime <= 1

IsDue(e) == e.targetTime <= 0

\* multimap::emplace puts an entry after every entry whose key is not greater
\* (the upper bound of the key).
InsertPosLowerBound(q, t) == Cardinality({i \in 1..Len(q) : q[i].targetTime < t})

InsertPos(q, t) == Cardinality({i \in 1..Len(q) : q[i].targetTime <= t})

\* ord records the order of submission among the entries that are pending
\* together: the new entry gets the largest, the others keep their ranks.
Rank(q, i) == 1 + Cardinality({j \in 1..Len(q) : q[j].ord < q[i].ord})

Reranked(q) == [i \in 1..Len(q) |-> [q[i] EXCEPT !.ord = Rank(q, i)]]

emplaceBack(q, t, id) ==
    Append(Reranked(q), [targetTime |-> t, identifier |-> id, ord |-> Len(q) + 1])

emplace(q, t, id) ==
    LET r == Reranked(q)
        p == InsertPos(r, t)
        e == [targetTime |-> t, identifier |-> id, ord |-> Len(r) + 1]
    IN  SubSeq(r, 1, p) \o <<e>> \o SubSeq(r, p + 1, Len(r))

\* cv.notify_all()
NotifiedPc(pc) == IF pc = "blocked" THEN "woken" ELSE pc

NotifiedWaiters(wp) == [w \in WaitThreads |-> NotifiedPc(wp[w])]

\* some thread is inside wait(): it has set waiting and has not returned
InsideWait(w) == waitPc[w] \in {"blocked", "woken"}

\* the process is alive; the step belongs to the queue
Others == <<barrierVars, condVars, intrVars, cancelCall, atVars>>

Running == ~aborted /\ UNCHANGED <<Others, addCall>>

QueueAlive == Running /\ dtorPc # "destroyed"

\* ---- addActionDetails: what the call does in the current state
addResultUnlimited(delay) ==
    IF delay < 0 THEN "invalid"
    ELSE IF stopping THEN "ignored"
    ELSE IF waiting THEN "eagain"
    ELSE "ok"

addResult(delay) ==
    IF delay < 0 THEN "invalid"
    ELSE IF stopping THEN "ignored"
    ELSE IF waiting THEN "eagain"
    ELSE IF Len(pendingActions) >= maxPending THEN "eagain"
    ELSE "ok"

\* addActionAfter: contract::parameters, then addActionDetails with
\* now() + delay
addActionDetails(delay, id) ==
    /\ LET res == addResult(delay) IN
        /\ IF res = "ok"
           THEN /\ pendingActions' = emplace(pendingActions, delay, id)
                /\ schedPc' = NotifiedPc(schedPc)
                /\ waitPc' = NotifiedWaiters(waitPc)
           ELSE UNCHANGED <<pendingActions, schedPc, waitPc>>
    /\ UNCHANGED <<stopping, waiting, runningAction, currentAction, inFlight,
                   dtorPc, aborted, raPc, raStopping, raRetried>>

\* addAction called by a thread other than actionThread
addAction(delay, id) ==
    /\ QueueAlive
    /\ addActionDetails(delay, id)

\* the same call made by a caller that looks at how it ended: "ok" and
\* "ignored" return, "eagain" is system_error(EAGAIN), "invalid" is
\* invalid_argument
NoAddCall == "none"

addActionAfterUnchecked(delay, id) ==
    /\ ~aborted
    /\ dtorPc # "destroyed"
    /\ addActionDetails(IF delay < 0 THEN 0 ELSE delay, id)
    /\ addCall' = addResult(IF delay < 0 THEN 0 ELSE delay)
    /\ UNCHANGED Others

addActionAfter(delay, id) ==
    /\ ~aborted
    /\ dtorPc # "destroyed"
    /\ addActionDetails(delay, id)
    /\ addCall' = addResult(delay)
    /\ UNCHANGED Others

\* a caller may pass a negative delay (Tests/action_queue.cpp: -1s)
MinDelay == -1

\* the identifier a caller gives to an action to tell with which delay it
\* was submitted
Tag(delay) == ToString(delay)

DelayOf(e) == CHOOSE d \in MinDelay..MaxDelay : Tag(d) = e.identifier

\* ---- the clock: now() advances by one tick
Tick ==
    /\ QueueAlive
    /\ pendingActions # <<>>
    /\ \A i \in 1..Len(pendingActions) : pendingActions[i].targetTime > -MaxOverdue
    /\ pendingActions' = [i \in 1..Len(pendingActions) |->
                            [pendingActions[i] EXCEPT !.targetTime = @ - 1]]
    /\ UNCHANGED <<stopping, waiting, runningAction, schedPc, currentAction,
                   inFlight, waitPc, dtorPc, aborted, raPc,
                   raStopping, raRetried>>

\* ---- runActionThread
\* where the thread goes once it has moved an action into currentAction
TakenPcDetached == "top"

TakenPc == "run"

\* lines 81-96, with the mutex held and the wait over
TakeIfDueBeforeStopping ==
    IF pendingActions # <<>> /\ IsDue(Head(pendingActions))
    THEN /\ runningAction' = TRUE
         /\ currentAction' = ActionOf(Head(pendingActions))
         /\ pendingActions' = Tail(pendingActions)
         /\ inFlight' = inFlight + 1
         /\ schedPc' = "run"
    ELSE /\ schedPc' = IF stopping THEN "done" ELSE "top"
         /\ UNCHANGED <<pendingActions, runningAction, currentAction, inFlight>>

TakeIfDue ==
    IF stopping
    THEN /\ schedPc' = "done"
         /\ UNCHANGED <<pendingActions, runningAction, currentAction, inFlight>>
    ELSE IF pendingActions # <<>> /\ IsDue(Head(pendingActions))
    THEN /\ runningAction' = TRUE
         /\ currentAction' = ActionOf(Head(pendingActions))
         /\ pendingActions' = Tail(pendingActions)
         /\ inFlight' = inFlight + 1
         /\ schedPc' = TakenPc
    ELSE /\ schedPc' = "top"
         /\ UNCHANGED <<pendingActions, runningAction, currentAction, inFlight>>

\* the wait_until predicate
SchedPredicate == stopping \/ pendingActions # <<>>

\* one pass of the loop from its top: lock, test stopping, wait_until
runActionThread ==
    /\ Running
    /\ schedPc = "top"
    /\ IF stopping \/ SchedPredicate
       THEN TakeIfDue
       ELSE /\ schedPc' = "blocked"
            /\ UNCHANGED <<pendingActions, runningAction, currentAction, inFlight>>
    /\ UNCHANGED <<stopping, waiting, waitPc, dtorPc, aborted, raPc, raStopping, raRetried>>

\* the thread holds the mutex again after a notification (or a spurious
\* wake-up, or the 10s timeout) and wait_until evaluates its predicate
runActionThreadWake ==
    /\ Running
    /\ schedPc = "woken"
    /\ IF SchedPredicate
       THEN TakeIfDue
       ELSE /\ schedPc' = "blocked"
            /\ UNCHANGED <<pendingActions, runningAction, currentAction, inFlight>>
    /\ UNCHANGED <<stopping, waiting, waitPc, dtorPc, aborted, raPc, raStopping, raRetried>>

\* runAction(currentAction): the callable starts.  An ordinary action runs
\* the caller's function; the RepeatingAction's internalAction enters
\* runActionAndRequeue.
runActionStart ==
    /\ Running
    /\ schedPc = "run"
    /\ schedPc' = IF currentAction = "internalAction" THEN "wrapper" ELSE "plain"
    /\ UNCHANGED <<pendingActions, stopping, waiting, runningAction, currentAction,
                   inFlight, waitPc, dtorPc, aborted, raPc,
                   raStopping, raRetried>>

\* the caller's function returns
plainActionReturns ==
    /\ Running
    /\ schedPc = "plain"
    /\ schedPc' = "finish"
    /\ UNCHANGED <<pendingActions, stopping, waiting, runningAction, currentAction,
                   inFlight, waitPc, dtorPc, aborted, raPc,
                   raStopping, raRetried>>

\* runAction lines 107-111: runningAction = false under the mutex, notify_all
runActionFinish ==
    /\ Running
    /\ schedPc = "finish"
    /\ runningAction' = FALSE
    /\ currentAction' = NoAction
    /\ inFlight' = inFlight - 1
    /\ schedPc' = "top"
    /\ waitPc' = NotifiedWaiters(waitPc)
    /\ raRetried' = FALSE
    /\ UNCHANGED <<pendingActions, stopping, waiting, dtorPc, aborted,
                   raPc, raStopping>>

\* ---- RepeatingAction::runActionAndRequeue, run on actionThread
\* line 274: if (!stopping)
wrapperEntry ==
    /\ Running
    /\ schedPc = "wrapper"
    /\ schedPc' = IF raStopping THEN "finish" ELSE "user"
    /\ UNCHANGED <<pendingActions, stopping, waiting, runningAction, currentAction,
                   inFlight, waitPc, dtorPc, aborted, raPc,
                   raStopping, raRetried>>

\* line 275: action() returns
wrapperUserAction ==
    /\ Running
    /\ schedPc = "user"
    /\ schedPc' = "requeue"
    /\ UNCHANGED <<pendingActions, stopping, waiting, runningAction, currentAction,
                   inFlight, waitPc, dtorPc, aborted, raPc,
                   raStopping, raRetried>>

\* lines 276-288: queue.addAction(timeInterval, identifier, internalAction);
\* EAGAIN is caught and leads to the sleep
wrapperRequeue ==
    /\ Running
    /\ schedPc = "requeue"
    /\ LET res == addResult(timeInterval) IN
        IF res = "ok"
        THEN /\ pendingActions' = emplace(pendingActions, timeInterval, raIdentifier)
             /\ waitPc' = NotifiedWaiters(waitPc)
             /\ schedPc' = "finish"
        ELSE /\ schedPc' = IF res = "eagain" THEN "sleep" ELSE "finish"
             /\ UNCHANGED <<pendingActions, waitPc>>
    /\ UNCHANGED <<stopping, waiting, runningAction, currentAction, inFlight,
                   dtorPc, aborted, raPc, raStopping, raRetried>>

\* lines 282-283: sleep_for(timeInterval) is over, internalAction() is called
wrapperRetry ==
    /\ Running
    /\ schedPc = "sleep"
    /\ schedPc' = "wrapper"
    /\ raRetried' = TRUE
    /\ UNCHANGED <<pendingActions, stopping, waiting, runningAction, currentAction,
                   inFlight, waitPc, dtorPc, aborted, raPc,
                   raStopping>>

\* ---- ActionQueue::cancel
cancelledEverything(q, id) == <<>>

cancelled(q, id) ==
    IF id = all THEN <<>> ELSE SelectSeq(q, LAMBDA e : e.identifier # id)

\* the value cancel returns: sizeIn when everything is cleared, otherwise
\* the number of erasures
cancelReturn(q, id) ==
    IF q = <<>> THEN 0
    ELSE IF id = all THEN Len(q)
    ELSE Cardinality({i \in 1..Len(q) : q[i].identifier = id})

cancelEffect(id) ==
    /\ pendingActions' = cancelled(pendingActions, id)
    /\ IF Len(cancelled(pendingActions, id)) < Len(pendingActions)
       THEN /\ schedPc' = NotifiedPc(schedPc)
            /\ waitPc' = NotifiedWaiters(waitPc)
       ELSE UNCHANGED <<schedPc, waitPc>>

cancelAlsoExecuting(id) ==
    /\ QueueAlive
    /\ pendingActions' = cancelled(pendingActions, id)
    /\ waitPc' = NotifiedWaiters(waitPc)
    /\ schedPc' = IF inFlight > 0 THEN "finish" ELSE NotifiedPc(schedPc)
    /\ UNCHANGED <<stopping, waiting, runningAction, currentAction, inFlight,
                   dtorPc, aborted, raPc, raStopping, raRetried>>

cancel(id) ==
    /\ QueueAlive
    /\ cancelEffect(id)
    /\ UNCHANGED <<stopping, waiting, runningAction, currentAction, inFlight,
                   dtorPc, aborted, raPc, raStopping, raRetried>>

\* ---- ActionQueue::wait
\* the predicate of cv.wait in wait()
WaitPredicate == stopping \/ (pendingActions = <<>> /\ ~runningAction)

\* contract::postconditions at the end of wait(), evaluated with the mutex
\* held and waiting holding the value wt
PostHolds(wt) == ~wt /\ ~runningAction /\ pendingActions = <<>>

\* wait() is over and evaluates its postconditions.  When they hold it
\* returns to its caller; a failed contract check ends the process, which
\* stays in the state the check found.
waitEnds(w, wt) ==
    /\ waiting' = wt
    /\ IF PostHolds(wt)
       THEN /\ waitPc' = [waitPc EXCEPT ![w] = "idle"]
            /\ UNCHANGED aborted
       ELSE /\ waitPc' = [waitPc EXCEPT ![w] = "failed"]
            /\ aborted' = TRUE

\* a thread calls wait()
wait(w) ==
    /\ QueueAlive
    /\ waitPc[w] = "idle"
    /\ IF pendingActions # <<>> \/ runningAction
       THEN IF WaitPredicate
            THEN waitEnds(w, FALSE)
            ELSE /\ waiting' = TRUE
                 /\ waitPc' = [waitPc EXCEPT ![w] = "blocked"]
                 /\ UNCHANGED aborted
       ELSE waitEnds(w, waiting)
    /\ UNCHANGED <<pendingActions, stopping, runningAction, schedPc, currentAction,
                   inFlight, dtorPc, raPc, raStopping, raRetried>>

\* a woken caller of wait() holds the mutex again and evaluates the predicate
waitWake(w) ==
    /\ Running
    /\ waitPc[w] = "woken"
    /\ IF WaitPredicate
       THEN waitEnds(w, FALSE)
       ELSE /\ waitPc' = [waitPc EXCEPT ![w] = "blocked"]
            /\ UNCHANGED <<waiting, aborted>>
    /\ UNCHANGED <<pendingActions, stopping, runningAction, schedPc, currentAction,
                   inFlight, dtorPc, raPc, raStopping, raRetried>>

\* condition_variable::wait may return without a notification
spuriousWake ==
    /\ Running
    /\ \/ /\ schedPc = "blocked"
          /\ schedPc' = "woken"
          /\ UNCHANGED waitPc
       \/ /\ \E w \in WaitThreads :
                /\ waitPc[w] = "blocked"
                /\ waitPc' = [waitPc EXCEPT ![w] = "woken"]
          /\ UNCHANGED schedPc
    /\ UNCHANGED <<pendingActions, stopping, waiting, runningAction, currentAction,
                   inFlight, dtorPc, aborted, raPc, raStopping, raRetried>>

\* ---- ActionQueue::~ActionQueue
\* lines 159-163: stopping = true under the mutex, notify_all
dtorStop ==
    /\ Running
    /\ dtorPc = "none"
    /\ raPc \in {"none", "dead"}
    /\ stopping' = TRUE
    /\ dtorPc' = "cancel"
    /\ schedPc' = NotifiedPc(schedPc)
    /\ waitPc' = NotifiedWaiters(waitPc)
    /\ UNCHANGED <<pendingActions, waiting, runningAction, currentAction, inFlight,
                   aborted, raPc, raStopping, raRetried>>

\* line 164: cancel()
dtorCancel ==
    /\ Running
    /\ dtorPc = "cancel"
    /\ cancelEffect(all)
    /\ dtorPc' = "join"
    /\ UNCHANGED <<stopping, waiting, runningAction, currentAction, inFlight,
                   aborted, raPc, raStopping, raRetried>>

\* lines 165-167: actionThread.join() returns once the thread has left its loop
dtorJoin ==
    /\ Running
    /\ dtorPc = "join"
    /\ schedPc = "done"
    /\ dtorPc' = "destroyed"
    /\ UNCHANGED <<pendingActions, stopping, waiting, runningAction, schedPc,
                   currentAction, inFlight, waitPc, aborted, raPc, raStopping, raRetried>>

\* ---- RepeatingAction
\* the constructor calls init(): addAction(timeInterval, identifier,
\* internalAction); when that throws no object comes into being
RepeatingActionInit ==
    /\ QueueAlive
    /\ dtorPc = "none"
    /\ raPc = "none"
    /\ LET res == addResult(timeInterval) IN
        IF res = "ok"
        THEN /\ pendingActions' = emplace(pendingActions, timeInterval, raIdentifier)
             /\ schedPc' = NotifiedPc(schedPc)
             /\ waitPc' = NotifiedWaiters(waitPc)
             /\ raPc' = "live"
        ELSE /\ raPc' = IF res = "eagain" THEN "none" ELSE "live"
             /\ UNCHANGED <<pendingActions, schedPc, waitPc>>
    /\ UNCHANGED <<stopping, waiting, runningAction, currentAction, inFlight,
                   dtorPc, aborted, raStopping, raRetried>>

\* ~RepeatingAction line 259: stopping = true
RepeatingActionDtorStop ==
    /\ QueueAlive
    /\ raPc = "live"
    /\ raStopping' = TRUE
    /\ raPc' = "dying"
    /\ UNCHANGED <<pendingActions, stopping, waiting, runningAction, schedPc,
                   currentAction, inFlight, waitPc, dtorPc, aborted, raRetried>>

\* ~RepeatingAction line 260: queue.cancel(identifier)
RepeatingActionDtorCancel ==
    /\ QueueAlive
    /\ raPc = "dying"
    /\ cancelEffect(raIdentifier)
    /\ raPc' = "dead"
    /\ UNCHANGED <<stopping, waiting, runningAction, currentAction, inFlight,
                   dtorPc, aborted, raStopping, raRetried>>

\* ---- the queue's specification
InitQueue ==
    /\ pendingActions = <<>>
    /\ stopping = FALSE
    /\ waiting = FALSE
    /\ runningAction = FALSE
    /\ schedPc = "top"
    /\ currentAction = NoAction
    /\ inFlight = 0
    /\ waitPc = [w \in WaitThreads |-> "idle"]
    /\ dtorPc = "none"
    /\ aborted = FALSE
    /\ raPc = "none"
    /\ raStopping = FALSE
    /\ raRetried = FALSE

actionThreadStep ==
    \/ runActionThread
    \/ runActionThreadWake
    \/ runActionStart
    \/ plainActionReturns
    \/ runActionFinish
    \/ wrapperEntry
    \/ wrapperUserAction
    \/ wrapperRequeue
    \/ wrapperRetry

Next ==
    \/ actionThreadStep
    \/ \E d \in 0..MaxDelay, id \in UserIdentifiers : addAction(d, id)
    \/ \E id \in UserIdentifiers : cancel(id)
    \/ \E w \in WaitThreads : wait(w) \/ waitWake(w)
    \/ spuriousWake
    \/ Tick
    \/ dtorStop
    \/ dtorCancel
    \/ dtorJoin
    \/ RepeatingActionInit
    \/ RepeatingActionDtorStop
    \/ RepeatingActionDtorCancel

\* the queue and callers that tag every action with its delay and look at
\* the outcome of addAction; no RepeatingAction, nobody calls cancel
NextSubmit ==
    \/ runActionThread
    \/ runActionThreadWake
    \/ runActionStart
    \/ plainActionReturns
    \/ runActionFinish
    \/ \E d \in MinDelay..MaxDelay : addActionAfter(d, Tag(d))
    \/ \E w \in WaitThreads : wait(w) \/ waitWake(w)
    \/ Tick

\* =====================================================================
\*                     Barrier (synchronizer.hpp / .cpp)
\* =====================================================================
\* Barrier(n)
n == 2
\* the threads that call the barrier
Parties == {1, 2, 3}
\* arrivals are no longer made once the counter has this value
MaxCounter == n + 1

\* counter is unsigned: 0 - 1 is 2^32 - 1, kept here as -1
Decremented(c) == c - 1

Incremented(c) == c + 1

\* counter >= n on the unsigned value
Reached(c) == c >= n \/ c < 0

BarrierOnly == UNCHANGED <<queueVars, condVars, intrVars, cancelCall, addCall, atVars>>

\* ++counter; if (counter >= n) { cv.notify_all(); return ...; } ; otherwise
\* the party goes to sleep in cv.wait / cv.wait_for / cv.wait_until
Arrive(p, kind, res) ==
    /\ barPc[p] = "idle"
    /\ counter >= 0 /\ counter < MaxCounter
    /\ counter' = Incremented(counter)
    /\ barKind' = [barKind EXCEPT ![p] = kind]
    /\ barCounted' = [barCounted EXCEPT ![p] = TRUE]
    /\ IF Reached(Incremented(counter))
       THEN /\ barPc' = [q \in Parties |-> IF q = p THEN "idle" ELSE NotifiedPc(barPc[q])]
            /\ barResult' = [barResult EXCEPT ![p] = res]
            /\ barReleased' = [q \in Parties |->
                                 IF q = p THEN FALSE ELSE (barReleased[q] \/ barPc[q] # "idle")]
       ELSE /\ barPc' = [barPc EXCEPT ![p] = "blocked"]
            /\ barResult' = [barResult EXCEPT ![p] = "none"]
            /\ barReleased' = [barReleased EXCEPT ![p] = FALSE]
    /\ BarrierOnly

\* Barrier::wait, synchronizer.cpp 57-68, up to its first cv.wait
BarrierWait(p) ==
    /\ barPc[p] = "idle"
    /\ Arrive(p, "wait", "void")

\* Barrier::waitFor / waitUntil, up to cv.wait_for / cv.wait_until
BarrierWaitFor(p) ==
    /\ barPc[p] = "idle"
    /\ Arrive(p, "timed", "true")

\* the party holds the mutex again after cv.wait returned
\* (while (counter < n) { interruptionPoint(); cv.wait(l); })
BarrierWaitWake(p) ==
    /\ barPc[p] = "woken" /\ barKind[p] = "wait"
    /\ IF Reached(counter)
       THEN /\ barPc' = [barPc EXCEPT ![p] = "idle"]
            /\ barResult' = [barResult EXCEPT ![p] = "void"]
       ELSE /\ barPc' = [barPc EXCEPT ![p] = "blocked"]
            /\ UNCHANGED barResult
    /\ UNCHANGED <<counter, barKind, barCounted, barReleased>>
    /\ BarrierOnly

\* cv.wait_for returned cv_status::no_timeout: return (counter >= n)
BarrierWaitForWake(p) ==
    /\ barPc[p] = "woken" /\ barKind[p] = "timed"
    /\ barPc' = [barPc EXCEPT ![p] = "idle"]
    /\ barResult' = [barResult EXCEPT ![p] = IF Reached(counter) THEN "true" ELSE "false"]
    /\ UNCHANGED <<counter, barKind, barCounted, barReleased>>
    /\ BarrierOnly

\* cv.wait_for returned cv_status::timeout: --counter; return false
BarrierWaitForTimedOut(p) ==
    /\ barPc[p] = "timedout"
    /\ counter' = Decremented(counter)
    /\ barCounted' = [barCounted EXCEPT ![p] = FALSE]
    /\ barPc' = [barPc EXCEPT ![p] = "idle"]
    /\ barResult' = [barResult EXCEPT ![p] = "false"]
    /\ UNCHANGED <<barKind, barReleased>>
    /\ BarrierOnly

\* the time of a wait_for / wait_until runs out; the party still has to
\* get the mutex back (it may have been notified in the meantime)
BarrierTimeout(p) ==
    /\ barPc[p] \in {"blocked", "woken"} /\ barKind[p] = "timed"
    /\ barPc' = [barPc EXCEPT ![p] = "timedout"]
    /\ UNCHANGED <<counter, barKind, barResult, barCounted, barReleased>>
    /\ BarrierOnly

\* condition_variable waits may return without a notification
BarrierSpuriousWake(p) ==
    /\ barPc[p] = "blocked"
    /\ barPc' = [barPc EXCEPT ![p] = "woken"]
    /\ UNCHANGED <<counter, barKind, barResult, barCounted, barReleased>>
    /\ BarrierOnly

\* Barrier::reset
BarrierReset ==
    /\ counter' = 0
    /\ barCounted' = [p \in Parties |-> FALSE]
    /\ barReleased' = [p \in Parties |-> FALSE]
    /\ UNCHANGED <<barPc, barKind, barResult>>
    /\ BarrierOnly

InitBarrier ==
    /\ counter = 0
    /\ barPc = [p \in Parties |-> "idle"]
    /\ barKind = [p \in Parties |-> "wait"]
    /\ barResult = [p \in Parties |-> "none"]
    /\ barCounted = [p \in Parties |-> FALSE]
    /\ barReleased = [p \in Parties |-> FALSE]

NextBarrier ==
    \/ \E p \in Parties :
          \/ BarrierWait(p)
          \/ BarrierWaitFor(p)
          \/ BarrierWaitWake(p)
          \/ BarrierWaitForWake(p)
          \/ BarrierWaitForTimedOut(p)
          \/ BarrierTimeout(p)
          \/ BarrierSpuriousWake(p)
    \/ BarrierReset

\* =====================================================================
\*                    Condition (synchronizer.hpp / .cpp)
\* =====================================================================
\* the threads that wait on the condition
Callers == {1, 2}

ConditionOnly == UNCHANGED <<queueVars, barrierVars, intrVars, cancelCall, addCall, atVars>>

\* the call returns res to its caller
ConditionReturns(p, res) ==
    /\ condPc' = [condPc EXCEPT ![p] = "idle"]
    /\ condResult' = [condResult EXCEPT ![p] = res]
    /\ condPredAtReturn' = [condPredAtReturn EXCEPT ![p] = predValue]

ConditionBlocks(p) ==
    /\ condPc' = [condPc EXCEPT ![p] = "blocked"]
    /\ condResult' = [condResult EXCEPT ![p] = "none"]
    /\ UNCHANGED condPredAtReturn

\* Condition::wait, synchronizer.cpp 19-25: while (!pred()) { ...; cv.wait(l); }
ConditionWait(p) ==
    /\ condPc[p] = "idle"
    /\ condKind' = [condKind EXCEPT ![p] = "wait"]
    /\ IF predValue THEN ConditionReturns(p, "void") ELSE ConditionBlocks(p)
    /\ UNCHANGED predValue
    /\ ConditionOnly

\* Condition::waitFor / waitUntil up to cv.wait_for / cv.wait_until
ConditionWaitFor(p) ==
    /\ condPc[p] = "idle"
    /\ condKind' = [condKind EXCEPT ![p] = "timed"]
    /\ IF predValue THEN ConditionReturns(p, "true") ELSE ConditionBlocks(p)
    /\ UNCHANGED predValue
    /\ ConditionOnly

\* wait(): the caller holds the mutex again and tests pred()
ConditionWaitWakeOnce(p) ==
    /\ condPc[p] = "woken" /\ condKind[p] = "wait"
    /\ ConditionReturns(p, "void")
    /\ UNCHANGED <<predValue, condKind>>
    /\ ConditionOnly

ConditionWaitWake(p) ==
    /\ condPc[p] = "woken" /\ condKind[p] = "wait"
    /\ IF predValue THEN ConditionReturns(p, "void") ELSE ConditionBlocks(p)
    /\ UNCHANGED <<predValue, condKind>>
    /\ ConditionOnly

\* what waitFor returns when cv.wait_for reports cv_status::timeout
TimeoutResult(pv) == "false"

\* cv.wait_for returned no_timeout: return pred()
ConditionWaitForWake(p) ==
    /\ condPc[p] = "woken" /\ condKind[p] = "timed"
    /\ ConditionReturns(p, IF predValue THEN "true" ELSE "false")
    /\ UNCHANGED <<predValue, condKind>>
    /\ ConditionOnly

\* cv.wait_for returned timeout: return false
ConditionWaitForTimedOut(p) ==
    /\ condPc[p] = "timedout"
    /\ ConditionReturns(p, TimeoutResult(predValue))
    /\ UNCHANGED <<predValue, condKind>>
    /\ ConditionOnly

\* the time of a wait_for / wait_until runs out
ConditionTimeout(p) ==
    /\ condPc[p] \in {"blocked", "woken"} /\ condKind[p] = "timed"
    /\ condPc' = [condPc EXCEPT ![p] = "timedout"]
    /\ UNCHANGED <<predValue, condKind, condResult, condPredAtReturn>>
    /\ ConditionOnly

ConditionSpuriousWake(p) ==
    /\ condPc[p] = "blocked"
    /\ condPc' = [condPc EXCEPT ![p] = "woken"]
    /\ UNCHANGED <<predValue, condKind, condResult, condPredAtReturn>>
    /\ ConditionOnly

\* Condition::process(fn): fn leaves pred() with the value v and returns ret
processWithoutNotify(v, ret) ==
    /\ predValue' = v
    /\ UNCHANGED <<condPc, condKind, condResult, condPredAtReturn>>
    /\ ConditionOnly

process(v, ret) ==
    /\ predValue' = v
    /\ condPc' = IF ret THEN [p \in Callers |-> NotifiedPc(condPc[p])] ELSE condPc
    /\ UNCHANGED <<condKind, condResult, condPredAtReturn>>
    /\ ConditionOnly

\* ---- Latch: the Condition whose predicate returns hasBeenFreed
hasBeenFreed == predValue

\* Latch::release: process of a function that sets hasBeenFreed and returns
\* true when it was not set, and returns false otherwise
releaseNotifiesOnly ==
    /\ hasBeenFreed' = hasBeenFreed
    /\ process(hasBeenFreed, TRUE)

release ==
    /\ hasBeenFreed' = TRUE
    /\ process(TRUE, ~hasBeenFreed)

\* Latch::reset: process of a function that clears hasBeenFreed and returns
\* false
reset ==
    /\ hasBeenFreed' = FALSE
    /\ process(FALSE, FALSE)

NextLatch ==
    \/ \E p \in Callers :
          \/ ConditionWait(p)
          \/ ConditionWaitFor(p)
          \/ ConditionWaitWake(p)
          \/ ConditionWaitForWake(p)
          \/ ConditionWaitForTimedOut(p)
          \/ ConditionTimeout(p)
          \/ ConditionSpuriousWake(p)
    \/ release
    \/ reset

InitCondition ==
    /\ predValue = FALSE
    /\ condPc = [p \in Callers |-> "idle"]
    /\ condKind = [p \in Callers |-> "wait"]
    /\ condResult = [p \in Callers |-> "none"]
    /\ condPredAtReturn = [p \in Callers |-> FALSE]

NextCondition ==
    \/ \E p \in Callers :
          \/ ConditionWait(p)
          \/ ConditionWaitFor(p)
          \/ ConditionWaitWake(p)
          \/ ConditionWaitForWake(p)
          \/ ConditionWaitForTimedOut(p)
          \/ ConditionTimeout(p)
          \/ ConditionSpuriousWake(p)
    \/ \E v \in BOOLEAN, ret \in BOOLEAN : process(v, ret)

\* =====================================================================
\*                 interruptible (interruptible.hpp / .cpp)
\* =====================================================================
\* interruptible regions are nested at most this deep
MaxDepth == 2
\* at most this many handlers are registered
MaxHandlers == 2

Platforms == {"linux", "apple"}

CancelStates == {"enable", "disable"}

InterruptibleOnly == UNCHANGED <<queueVars, barrierVars, condVars, cancelCall, addCall, atVars>>

\* how doCall ends when its body is cancelled: on __linux the catch of
\* abi::__forced_unwind rethrows, elsewhere _private::Interrupted is caught
\* and goes no further
CatchOutcomeSwallow(pf) == "returned"

CatchOutcome(pf) == IF pf = "linux" THEN "reraised" ELSE "returned"

\* cleanup(void*): for (const auto& fn : onInterruptedFns) fn();
cleanup(log, fns) == log \o fns

\* doCall up to the call of fn(): Guard guard; pthread_cleanup_push
doCallEnter ==
    /\ thrPc = "running"
    /\ Len(frames) < MaxDepth
    /\ onInterruptedFns' = <<>>
    /\ frames' = Append(frames, [oldCancelState |-> cancelState, registered |-> <<>>])
    /\ cancelState' = "enable"
    /\ UNCHANGED <<exception, observed>>
    /\ UNCHANGED <<platform, thrPc, cancelPending, nextFn, ran, delivered, cancelledRegion>>
    /\ InterruptibleOnly

\* doCall after fn() has returned: pthread_cleanup_pop(0); ~Guard
doCallReturn ==
    /\ thrPc = "running"
    /\ frames # <<>>
    /\ cancelState' = frames[Len(frames)].oldCancelState
    /\ frames' = SubSeq(frames, 1, Len(frames) - 1)
    /\ UNCHANGED <<exception, observed>>
    /\ UNCHANGED <<platform, thrPc, onInterruptedFns, cancelPending, nextFn, ran,
                   delivered, cancelledRegion>>
    /\ InterruptibleOnly

\* kss::thread::onInterrupted(fn)
onInterrupted ==
    /\ thrPc = "running"
    /\ nextFn <= MaxHandlers
    /\ onInterruptedFns' = Append(onInterruptedFns, nextFn)
    /\ frames' = IF frames = <<>> THEN frames
                 ELSE [frames EXCEPT ![Len(frames)].registered = Append(@, nextFn)]
    /\ nextFn' = nextFn + 1
    /\ UNCHANGED <<exception, observed>>
    /\ UNCHANGED <<platform, thrPc, cancelPending, cancelState, ran, delivered,
                   cancelledRegion>>
    /\ InterruptibleOnly

\* kss::thread::interrupt: pthread_cancel.  Guard has set the cancel type
\* to PTHREAD_CANCEL_DEFERRED: the request stays pending until the thread
\* reaches a cancellation point.
interruptAsynchronous ==
    /\ thrPc = "running"
    /\ ~delivered /\ ~cancelPending
    /\ IF cancelState = "enable"
       THEN /\ thrPc' = "cancelling"
            /\ delivered' = TRUE
            /\ cancelledRegion' = IF frames = <<>> THEN <<>>
                                  ELSE frames[Len(frames)].registered
            /\ UNCHANGED cancelPending
       ELSE /\ cancelPending' = TRUE
            /\ UNCHANGED <<thrPc, delivered, cancelledRegion>>
    /\ UNCHANGED <<exception, observed>>
    /\ UNCHANGED <<platform, frames, onInterruptedFns, cancelState, nextFn, ran>>
    /\ InterruptibleOnly

interrupt ==
    /\ thrPc # "terminated"
    /\ ~delivered /\ ~cancelPending
    /\ cancelPending' = TRUE
    /\ UNCHANGED <<exception, observed>>
    /\ UNCHANGED <<platform, thrPc, frames, onInterruptedFns, cancelState, nextFn, ran,
                   delivered, cancelledRegion>>
    /\ InterruptibleOnly

\* a cancellation point acts on a pending request: the thread starts to
\* unwind
pthread_testcancel ==
    /\ cancelPending /\ cancelState = "enable"
    /\ thrPc' = "cancelling"
    /\ cancelPending' = FALSE
    /\ delivered' = TRUE
    /\ ran' = <<>>
    /\ cancelledRegion' = IF frames = <<>> THEN <<>> ELSE frames[Len(frames)].registered
    /\ UNCHANGED <<exception, observed>>
    /\ UNCHANGED <<platform, frames, onInterruptedFns, cancelState, nextFn>>

\* kss::thread::interruptionPoint: pthread_testcancel acting on a request
interruptionPoint ==
    /\ thrPc = "running"
    /\ pthread_testcancel
    /\ InterruptibleOnly

\* the cancellation leaves the innermost doCall: the cleanup handler pushed
\* by pthread_cleanup_push runs, the catch clause of the build decides how
\* doCall ends, ~Guard restores the cancel state
doCallCancelled ==
    /\ thrPc = "cancelling"
    /\ frames # <<>>
    /\ ran' = cleanup(ran, onInterruptedFns)
    /\ cancelState' = frames[Len(frames)].oldCancelState
    /\ frames' = SubSeq(frames, 1, Len(frames) - 1)
    /\ IF CatchOutcome(platform) = "reraised"
       THEN thrPc' = "cancelling" /\ UNCHANGED cancelPending
       ELSE thrPc' = "running" /\ cancelPending' \in BOOLEAN
    /\ UNCHANGED <<exception, observed>>
    /\ UNCHANGED <<platform, onInterruptedFns, nextFn, delivered, cancelledRegion>>
    /\ InterruptibleOnly

\* no doCall frame is left: the thread ends
threadExit ==
    /\ thrPc = "cancelling"
    /\ frames = <<>>
    /\ thrPc' = "terminated"
    /\ UNCHANGED <<exception, observed>>
    /\ UNCHANGED <<platform, frames, onInterruptedFns, cancelPending, cancelState, nextFn,
                   ran, delivered, cancelledRegion>>
    /\ InterruptibleOnly

\* ---- an ordinary exception thrown by the body of a region
\* the exceptions a body throws
Exceptions == {"runtime_error", "logic_error"}

NoException == "none"

\* fn() throws e
bodyThrows(e) ==
    /\ thrPc = "running"
    /\ frames # <<>>
    /\ thrPc' = "throwing"
    /\ exception' = e
    /\ UNCHANGED <<platform, frames, onInterruptedFns, cancelPending, cancelState, nextFn,
                   ran, delivered, cancelledRegion, observed>>
    /\ InterruptibleOnly

\* what doCall does with the exception it caught in catch (...)
RethrownSwallowed(e) == [pc |-> "running", exception |-> NoException]

Rethrown(e) == [pc |-> "propagating", exception |-> e]

\* doCall lines 118-125: catch (...) saves current_exception(),
\* pthread_cleanup_pop(0) removes the cleanup handler without running it,
\* rethrow_exception(eptr) leaves doCall and ~Guard restores the cancel state
doCallRethrow ==
    /\ thrPc \in {"throwing", "propagating"}
    /\ frames # <<>>
    /\ cancelState' = frames[Len(frames)].oldCancelState
    /\ frames' = SubSeq(frames, 1, Len(frames) - 1)
    /\ thrPc' = Rethrown(exception).pc
    /\ exception' = Rethrown(exception).exception
    /\ UNCHANGED <<platform, onInterruptedFns, cancelPending, nextFn, ran, delivered,
                   cancelledRegion, observed>>
    /\ InterruptibleOnly

\* the code that called interruptible catches the exception and runs on
callerCatches ==
    /\ thrPc = "propagating"
    /\ observed' = exception
    /\ exception' = NoException
    /\ thrPc' = "running"
    /\ UNCHANGED <<platform, frames, onInterruptedFns, cancelPending, cancelState, nextFn,
                   ran, delivered, cancelledRegion>>
    /\ InterruptibleOnly

InitInterruptibleOn(pf, cs) ==
    /\ platform = pf
    /\ thrPc = "running"
    /\ frames = <<>>
    /\ onInterruptedFns = <<>>
    /\ cancelPending = FALSE
    /\ cancelState = cs
    /\ nextFn = 1
    /\ ran = <<>>
    /\ delivered = FALSE
    /\ cancelledRegion = <<>>
    /\ exception = NoException
    /\ observed = NoException


NextInterruptible ==
    \/ doCallEnter
    \/ doCallReturn
    \/ onInterrupted
    \/ interrupt
    \/ interruptionPoint
    \/ doCallCancelled
    \/ threadExit
    \/ \E e \in Exceptions : bodyThrows(e)
    \/ doCallRethrow
    \/ callerCatches

\* ---- Condition::wait called by the thread inside its regions
\* the caller of the Condition that is the interruptible thread
Waiter == 1

WaitPointOnly == UNCHANGED <<queueVars, barrierVars, cancelCall, addCall, atVars>>

\* the steps the thread takes outside wait()
regionStep ==
    /\ condPc[Waiter] = "idle"
    /\ \/ doCallEnter
       \/ doCallReturn
       \/ onInterrupted

\* synchronizer.cpp line 21, on entry and after every return of cv.wait:
\* while (!pred())
waitTest ==
    /\ thrPc = "running"
    /\ condPc[Waiter] \in {"idle", "woken"}
    /\ condKind' = [condKind EXCEPT ![Waiter] = "wait"]
    /\ IF predValue
       THEN ConditionReturns(Waiter, "void")
       ELSE /\ condPc' = [condPc EXCEPT ![Waiter] = "point"]
            /\ condResult' = [condResult EXCEPT ![Waiter] = "none"]
            /\ UNCHANGED condPredAtReturn
    /\ UNCHANGED <<predValue, intrVars>>
    /\ WaitPointOnly

\* lines 22-23: interruptionPoint(); cv.wait(l);  A cancellation unwinds
\* wait(), which releases the mutex.
waitPoint ==
    /\ thrPc = "running"
    /\ condPc[Waiter] = "point"
    /\ IF cancelPending /\ cancelState = "enable"
       THEN /\ pthread_testcancel
            /\ condPc' = [condPc EXCEPT ![Waiter] = "idle"]
       ELSE /\ condPc' = [condPc EXCEPT ![Waiter] = "blocked"]
            /\ UNCHANGED intrVars
    /\ UNCHANGED <<predValue, condKind, condResult, condPredAtReturn>>
    /\ WaitPointOnly

\* the thread sleeps in cv.wait(l) while a request is pending:
\* pthread_cond_wait acts on it
cvWaitCancelled ==
    /\ thrPc = "running"
    /\ condPc[Waiter] = "blocked"
    /\ pthread_testcancel
    /\ condPc' = [condPc EXCEPT ![Waiter] = "idle"]
    /\ UNCHANGED <<predValue, condKind, condResult, condPredAtReturn>>
    /\ WaitPointOnly

\* the steps of the thread that do not depend on anybody else
waiterStep ==
    \/ waitTest
    \/ waitPoint
    \/ doCallCancelled
    \/ threadExit

NextWaitPoint ==
    \/ regionStep
    \/ waiterStep
    \/ cvWaitCancelled
    \/ interrupt
    \/ ConditionSpuriousWake(Waiter)
    \/ \E v \in BOOLEAN, ret \in BOOLEAN : process(v, ret)

\* ---- ActionQueue::cancel applied to one pending set
\* the entries a pending set may hold
PendingEntries ==
    [targetTime : (-MaxOverdue)..MaxDelay, identifier : UserIdentifiers \cup {raIdentifier},
     ord : 1..maxPending]

\* the pending sets of up to maxPending entries: ordered by targetTime,
\* entries of equal targetTime in the order of their submission
PendingSets ==
    {q \in UNION {[1..k -> PendingEntries] : k \in 0..maxPending} :
        /\ \A i, j \in 1..Len(q) : i < j =>
              /\ q[i].targetTime <= q[j].targetTime
              /\ q[i].ord # q[j].ord
              /\ q[i].targetTime = q[j].targetTime => q[i].ord < q[j].ord
        /\ \A i \in 1..Len(q) : q[i].ord <= Len(q)}

CancelOnly == UNCHANGED <<queueVars, barrierVars, condVars, intrVars, addCall, atVars>>

NoCancelCall == [q |-> <<>>, identifier |-> all, done |-> FALSE, out |-> <<>>, ret |-> 0]

\* size_t ret = cancel(identifier)
cancelApplied ==
    /\ ~cancelCall.done
    /\ cancelCall' = [cancelCall EXCEPT
                        !.done = TRUE,
                        !.out = cancelled(cancelCall.q, cancelCall.identifier),
                        !.ret = cancelReturn(cancelCall.q, cancelCall.identifier)]
    /\ CancelOnly

NextCancel == cancelApplied

\* =====================================================================
\*                     ActionThread (action_thread.hpp)
\* =====================================================================
\* at most this many tasks are submitted
MaxTasks == 3

NoTask == 0

Builds == {"debug", "ndebug"}

ActionThreadOnly ==
    /\ ~atAborted
    /\ UNCHANGED <<queueVars, barrierVars, condVars, intrVars, cancelCall, addCall>>

\* cv.notify_all() on the ActionThread's condition variable
atNotified(pc) == IF pc = "blocked" THEN "woken" ELSE pc

\* async / startTask: the mutex is free unless workerThread is between its
\* test of the loop condition and cv.wait
async ==
    /\ ActionThreadOnly
    /\ atDtorPc = "none"
    /\ atPc # "waiting"
    /\ atNext <= MaxTasks
    /\ atNext' = atNext + 1
    /\ IF atWorker # NoTask /\ atBuild = "debug"
       THEN /\ atAborted' = TRUE
            /\ UNCHANGED <<atWorker, atPc, atAccepted>>
       ELSE /\ atWorker' = atNext
            /\ atPc' = atNotified(atPc)
            /\ atAccepted' = (atAccepted \ {atWorker}) \cup {atNext}
            /\ UNCHANGED atAborted
    /\ UNCHANGED <<atBuild, atStopping, atLocal, atDtorPc, atRan, atActive>>

\* workerThread line 86: while (!stopping)
workerLoop ==
    /\ ActionThreadOnly
    /\ atPc = "loop"
    /\ atPc' = IF atStopping THEN "done" ELSE "check"
    /\ UNCHANGED <<atBuild, atWorker, atStopping, atLocal, atDtorPc, atNext, atRan,
                   atActive, atAccepted, atAborted>>

\* lines 91-99 with the mutex held: the test of the inner loop, then either
\* cv.wait is about to be called, or the loop is left and stopping is
\* tested, or the task is swapped into localWorker
workerCheck ==
    /\ ActionThreadOnly
    /\ atPc \in {"check", "woken"}
    /\ IF ~atStopping /\ atWorker = NoTask
       THEN /\ atPc' = "waiting"
            /\ UNCHANGED <<atWorker, atLocal>>
       ELSE IF atStopping
       THEN /\ atPc' = "done"
            /\ UNCHANGED <<atWorker, atLocal>>
       ELSE /\ atLocal' = atWorker
            /\ atWorker' = NoTask
            /\ atPc' = "taken"
    /\ UNCHANGED <<atBuild, atStopping, atDtorPc, atNext, atRan, atActive, atAccepted,
                   atAborted>>

\* line 93: cv.wait(l) releases the mutex and blocks
workerWait ==
    /\ ActionThreadOnly
    /\ atPc = "waiting"
    /\ atPc' = "blocked"
    /\ UNCHANGED <<atBuild, atWorker, atStopping, atLocal, atDtorPc, atNext, atRan,
                   atActive, atAccepted, atAborted>>

\* cv.wait may return without a notification
workerSpuriousWake ==
    /\ ActionThreadOnly
    /\ atPc = "blocked"
    /\ atPc' = "woken"
    /\ UNCHANGED <<atBuild, atWorker, atStopping, atLocal, atDtorPc, atNext, atRan,
                   atActive, atAccepted, atAborted>>

\* where workerThread is while localWorker() runs
RunPcDetached == "loop"

RunPc == "running"

\* lines 105-111: if (stopping) break; else localWorker() is called
workerTaken ==
    /\ ActionThreadOnly
    /\ atPc = "taken"
    /\ IF atStopping
       THEN /\ atPc' = "done"
            /\ atLocal' = NoTask
            /\ UNCHANGED atActive
       ELSE /\ atPc' = RunPc
            /\ atActive' = atActive \cup {atLocal}
            /\ UNCHANGED atLocal
    /\ UNCHANGED <<atBuild, atWorker, atStopping, atDtorPc, atNext, atRan, atAccepted,
                   atAborted>>

\* localWorker() returns: the task has run and its future is ready
workerRun ==
    /\ ActionThreadOnly
    /\ atPc = "running"
    /\ atRan' = Append(atRan, atLocal)
    /\ atActive' = atActive \ {atLocal}
    /\ atLocal' = NoTask
    /\ atPc' = "loop"
    /\ UNCHANGED <<atBuild, atWorker, atStopping, atDtorPc, atNext, atAccepted,
                   atAborted>>

\* ~ActionThread line 45: stopping = true (no mutex is taken)
atDtorStop ==
    /\ ActionThreadOnly
    /\ atDtorPc = "none"
    /\ atStopping' = TRUE
    /\ atDtorPc' = "notify"
    /\ UNCHANGED <<atBuild, atWorker, atPc, atLocal, atNext, atRan, atActive, atAccepted,
                   atAborted>>

\* line 46: cv.notify_all()
atDtorNotify ==
    /\ ActionThreadOnly
    /\ atDtorPc = "notify"
    /\ atPc' = atNotified(atPc)
    /\ atDtorPc' = "join"
    /\ UNCHANGED <<atBuild, atWorker, atStopping, atLocal, atNext, atRan, atActive,
                   atAccepted, atAborted>>

\* lines 47-49: workerThread.join() returns once the thread has ended
atDtorJoin ==
    /\ ActionThreadOnly
    /\ atDtorPc = "join"
    /\ atPc = "done"
    /\ atDtorPc' = "joined"
    /\ UNCHANGED <<atBuild, atWorker, atStopping, atPc, atLocal, atNext, atRan, atActive,
                   atAccepted, atAborted>>

InitActionThreadOn(b) ==
    /\ atBuild = b
    /\ atWorker = NoTask
    /\ atStopping = FALSE
    /\ atPc = "loop"
    /\ atLocal = NoTask
    /\ atDtorPc = "none"
    /\ atNext = 1
    /\ atRan = <<>>
    /\ atActive = {}
    /\ atAccepted = {}
    /\ atAborted = FALSE

workerThread ==
    \/ workerLoop
    \/ workerCheck
    \/ workerWait
    \/ workerTaken
    \/ workerRun

NextActionThread ==
    \/ workerThread
    \/ workerSpuriousWake
    \/ async
    \/ atDtorStop
    \/ atDtorNotify
    \/ atDtorJoin

\* =====================================================================
\*                          Specifications
\* =====================================================================
\* the other components at rest
Init ==
    /\ InitQueue
    /\ InitBarrier
    /\ InitCondition
    /\ InitInterruptibleOn("linux", "enable")
    /\ cancelCall = NoCancelCall
    /\ addCall = NoAddCall
    /\ InitActionThreadOn("debug")



Spec == Init /\ [][Next]_vars

\* the scheduling the code relies on: actionThread keeps running, a woken
\* caller of wait() gets the mutex, and the clock advances
FairSpec ==
    /\ Spec
    /\ WF_vars(actionThreadStep)
    /\ \A w \in WaitThreads : WF_vars(waitWake(w))
    /\ WF_vars(Tick)

SpecSubmit == Init /\ [][NextSubmit]_vars

SpecBarrier == Init /\ [][NextBarrier]_vars

SpecCondition == Init /\ [][NextCondition]_vars

SpecLatch == Init /\ [][NextLatch]_vars

InitThread ==
    /\ InitQueue
    /\ InitBarrier
    /\ InitCondition
    /\ \E pf \in Platforms, cs \in CancelStates : InitInterruptibleOn(pf, cs)
    /\ cancelCall = NoCancelCall
    /\ addCall = NoAddCall
    /\ InitActionThreadOn("debug")

SpecInterruptible == InitThread /\ [][NextInterruptible]_vars

\* a thread that calls Condition::wait inside interruptible regions.  The
\* thread runs when it can.  On the Linux build the sleeping thread is
\* cancelled in pthread_cond_wait; the tests that interrupt a thread in
\* wait() are compiled for that build only, and nothing is assumed about
\* the sleeping thread on the other build.
FairSpecWaitPoint ==
    /\ InitThread
    /\ [][NextWaitPoint]_vars
    /\ WF_vars(waiterStep)
    /\ WF_vars(platform = "linux" /\ cvWaitCancelled)

\* one call of cancel on each pending set
InitCancel ==
    /\ InitQueue
    /\ InitBarrier
    /\ InitCondition
    /\ InitInterruptibleOn("linux", "enable")
    /\ \E q \in PendingSets, id \in UserIdentifiers \cup {raIdentifier} :
          cancelCall = [q |-> q, identifier |-> id, done |-> FALSE, out |-> <<>>, ret |-> 0]
    /\ addCall = NoAddCall
    /\ InitActionThreadOn("debug")

SpecCancel == InitCancel /\ [][NextCancel]_vars

\* the ActionThread in both builds
InitActionThread ==
    /\ InitQueue
    /\ InitBarrier
    /\ InitCondition
    /\ InitInterruptibleOn("linux", "enable")
    /\ cancelCall = NoCancelCall
    /\ addCall = NoAddCall
    /\ \E b \in Builds : InitActionThreadOn(b)

SpecActionThread == InitActionThread /\ [][NextActionThread]_vars

\* the queue when nobody calls cancel, wait or a destructor
NextUndisturbed ==
    \/ actionThreadStep
    \/ \E d \in 0..MaxDelay, id \in UserIdentifiers : addAction(d, id)
    \/ Tick
    \/ RepeatingActionInit

FairSpecUndisturbed ==
    /\ Init
    /\ [][NextUndisturbed]_vars
    /\ WF_vars(actionThreadStep)
    /\ WF_vars(Tick)

\* ---------------------------------------------------------------------
\* Properties of the ActionQueue
\* ---------------------------------------------------------------------
\* the entries of q that a step removed when it started an action
TakenIn(q, q2) == {i \in 1..Len(q) : \A j \in 1..Len(q2) : q2[j].ord # q[i].ord}

\* C1: whenever actionThread removes an action from the pending set to run
\* it, no other pending action has a strictly earlier targetTime, and every
\* other pending action with the same targetTime was submitted later.
C1_StartsEarliestDeadline ==
    [][ inFlight' = inFlight + 1 =>
          \A i \in TakenIn(pendingActions, pendingActions') :
             \A k \in 1..Len(pendingActions) :
                k # i =>
                   \/ pendingActions[k].targetTime > pendingActions[i].targetTime
                   \/ /\ pendingActions[k].targetTime = pendingActions[i].targetTime
                      /\ pendingActions[k].ord > pendingActions[i].ord ]_vars

\* an action has been started while another one that was due as well, and
\* was submitted after it, stayed behind
C1_Witness ==
    /\ inFlight = 1
    /\ schedPc = "run"
    /\ pendingActions # <<>>
    /\ IsDue(Head(pendingActions))

\* C2: at most one action of the queue is executing at any time.
C2_OneActionAtATime == inFlight <= 1

\* the RepeatingAction's user function is running while another action is
\* pending and due
C2_Witness ==
    /\ inFlight = 1
    /\ schedPc = "user"
    /\ pendingActions # <<>>
    /\ IsDue(Head(pendingActions))

\* C3: while a thread is inside wait() (and the queue is not being
\* destroyed) no addAction inserts anything: the pending set does not grow.
C3_NoInsertDuringWait ==
    [][ ((\E w \in WaitThreads : InsideWait(w)) /\ ~stopping /\ ~stopping')
           => Len(pendingActions') <= Len(pendingActions) ]_vars

\* C4: every call of wait() eventually returns, provided the queue is not
\* destroyed (here: already when thread 1 is the only thread that ever calls
\* wait()).
C4_WaitReturns ==
    ([](waitPc[2] = "idle" /\ dtorPc = "none"))
        => ((waitPc[1] = "blocked") ~> (waitPc[1] = "idle"))

\* C5: when wait() is over and evaluates its postconditions, the pending
\* set is empty, runningAction is false and waiting is false (here: already
\* for a queue whose destructor has not been called).
C5_WaitPostconditions ==
    \A w \in WaitThreads :
        (waitPc[w] = "failed" /\ ~stopping) =>
            /\ pendingActions = <<>>
            /\ ~runningAction
            /\ ~waiting

\* ---------------------------------------------------------------------
\* Properties of the Barrier
\* ---------------------------------------------------------------------
\* C6: once the counter has reached n (and until reset), no party that was
\* inside a call at that moment goes back to sleep, and its timed wait
\* returns true.
C6_ReleaseIsAllOrNothing ==
    \A p \in Parties :
        barReleased[p] =>
            /\ barPc[p] # "blocked"
            /\ (barPc[p] = "idle" /\ barKind[p] = "timed") => barResult[p] = "true"

\* C7: when waitFor / waitUntil has returned false, the increment the call
\* made to the counter has been undone.
C7_FalseMeansNotCounted ==
    \A p \in Parties :
        (barPc[p] = "idle" /\ barKind[p] = "timed" /\ barResult[p] = "false")
            => ~barCounted[p]

\* ---------------------------------------------------------------------
\* Properties of the Condition
\* ---------------------------------------------------------------------
\* C8: when waitFor / waitUntil returns false, pred() is false at that moment.
C8_NoTimeoutWhilePredicateTrue ==
    \A p \in Callers :
        (condPc[p] = "idle" /\ condResult[p] = "false") => ~condPredAtReturn[p]
\* ---------------------------------------------------------------------
\* Properties of interruptible
\* ---------------------------------------------------------------------
\* the invocations in log of the handlers in fns
InvocationsOf(log, fns) ==
    SelectSeq(log, LAMBDA h : \E i \in 1..Len(fns) : fns[i] = h)

\* C9: when the cancellation of a region is complete, the handlers that
\* were registered in that region have each been invoked exactly once, in
\* the order of their registration.
C9_HandlersOnceInOrder ==
    (delivered /\ thrPc # "cancelling")
        => InvocationsOf(ran, cancelledRegion) = cancelledRegion

\* C10 (as stated): a cancellation that leaves doCall ends with doCall
\* returning to its caller, the thread running on.
C10_AbsorbedAtBoundary ==
    [][(thrPc = "cancelling" /\ Len(frames') < Len(frames)) => thrPc' = "running"]_vars

\* C10 (amended): a cancellation that leaves doCall has run the handlers of
\* the list; on the Linux build doCall re-raises it and the thread goes on
\* unwinding, on the other build doCall returns and the thread runs on.
C10_ReraisedOnLinux ==
    [][(thrPc = "cancelling" /\ Len(frames') < Len(frames)) =>
          /\ ran' = ran \o onInterruptedFns
          /\ platform = "linux" => thrPc' = "cancelling"
          /\ platform # "linux" => thrPc' = "running"]_vars

C10_Witness ==
    /\ platform = "linux"
    /\ thrPc = "terminated"
    /\ cancelledRegion # <<>>
    /\ ran = cancelledRegion
\* ---------------------------------------------------------------------
\* Properties of the RepeatingAction
\* ---------------------------------------------------------------------
\* C14: once ~RepeatingAction has returned, no pending action carries the
\* RepeatingAction's identifier.
C14_NothingPendingAfterDtor ==
    raPc = "dead" =>
        \A i \in 1..Len(pendingActions) : pendingActions[i].identifier # raIdentifier

\* C15: within one execution of the wrapper by the scheduler, a
\* re-submission that follows the retry is not rejected into a further
\* sleep and retry.
C15_AtMostOneRetry == ~(raRetried /\ schedPc = "sleep")
\* ---------------------------------------------------------------------
\* Properties of the ActionQueue: destruction, cancel, capacity
\* ---------------------------------------------------------------------
\* C16: once the destructor has set stopping no action is started any more,
\* and when the destructor goes on to join the thread the pending set is
\* empty.
C16_DestructionDiscardsPending ==
    [][/\ stopping => inFlight' <= inFlight
       /\ dtorPc' \in {"join", "destroyed"} => pendingActions' = <<>>]_vars

C16_Witness ==
    /\ dtorPc = "cancel"
    /\ pendingActions # <<>>
    /\ IsDue(Head(pendingActions))
    /\ schedPc \in {"top", "woken"}

\* C19: a step that removes entries from the pending set while an action
\* is being executed leaves that action where it is.
C19_CancelSparesExecuting ==
    [][(inFlight = 1 /\ Len(pendingActions') < Len(pendingActions)) =>
          /\ inFlight' = 1
          /\ runningAction'
          /\ currentAction' = currentAction
          /\ schedPc' = schedPc]_vars

C19_Witness ==
    /\ dtorPc = "join"
    /\ inFlight = 1
    /\ schedPc = "plain"
    /\ pendingActions = <<>>

\* C20: the pending set never holds more than maxPending entries.
C20_NeverMoreThanMaxPending == Len(pendingActions) <= maxPending

C20_Witness ==
    /\ schedPc = "sleep"
    /\ Len(pendingActions) = maxPending
    /\ ~waiting /\ ~stopping /\ ~aborted
    /\ \A w \in WaitThreads : waitPc[w] = "idle"
\* C17: when nobody cancels and nothing is destroyed, a pending action
\* leads to an action being taken for execution.
C17_AcceptedIsExecuted == (pendingActions # <<>>) ~> (schedPc = "run")

\* the positions of q whose entries cancel(id) has to leave in place
KeptBy(q, id) == {i \in 1..Len(q) : id # all /\ q[i].identifier # id}

\* the k-th smallest element of the set of positions S
KthOf(S, k) == CHOOSE i \in S : Cardinality({j \in S : j <= i}) = k

\* C18: cancel(id) leaves exactly the entries whose identifier differs from
\* a non-empty id, unchanged and in their order, leaves nothing when id is
\* empty, and returns the number of entries it removed.
C18_CancelRemovesMatching ==
    cancelCall.done =>
        LET q == cancelCall.q
            kept == KeptBy(q, cancelCall.identifier)
        IN  /\ Len(cancelCall.out) = Cardinality(kept)
            /\ \A k \in 1..Len(cancelCall.out) : cancelCall.out[k] = q[KthOf(kept, k)]
            /\ cancelCall.ret = Len(q) - Len(cancelCall.out)

C18_Witness ==
    /\ cancelCall.done
    /\ cancelCall.identifier = "a"
    /\ Len(cancelCall.q) = 2
    /\ cancelCall.q[1].identifier = "a"
    /\ cancelCall.ret = 1
    /\ cancelCall.out = <<cancelCall.q[2]>>

\* ---------------------------------------------------------------------
\* Properties of the ActionThread
\* ---------------------------------------------------------------------
\* C11: at most one task is being run; the tasks are run in the order of
\* their submission; while a task is being run every task submitted before
\* it has been run or discarded, none is being run or still in the slot.
C11_OneTaskAtATimeInOrder ==
    /\ Cardinality(atActive) <= 1
    /\ \A i, j \in 1..Len(atRan) : i < j => atRan[i] < atRan[j]
    /\ \A t \in atActive :
          /\ \A i \in 1..Len(atRan) : atRan[i] < t
          /\ atWorker = NoTask \/ atWorker > t

C11_Witness ==
    /\ atActive = {2}
    /\ atRan = <<1>>
    /\ atWorker = 3

\* C12: when the worker thread has ended, every task that was installed in
\* the empty slot (and not replaced by a later async) has been run exactly
\* once.
C12_AcceptedTaskIsRun ==
    atPc = "done" =>
        \A t \in atAccepted : Cardinality({i \in 1..Len(atRan) : atRan[i] = t}) = 1

\* C13: in the debug build no task is accepted into the slot while another
\* task is being run.
C13_BusyIsRejected ==
    atBuild = "debug" => ~(atWorker # NoTask /\ atActive # {})

\* ---------------------------------------------------------------------
\* Properties of the ActionQueue: submission
\* ---------------------------------------------------------------------
\* C21: a call of addAction with a negative delay ends with
\* invalid_argument and leaves the pending set and the flags waiting and
\* runningAction as they were.
C21_NegativeDelayIsRejected ==
    [][ \A d \in MinDelay..(-1) :
          addActionAfter(d, Tag(d)) =>
             /\ addCall' = "invalid"
             /\ UNCHANGED <<pendingActions, waiting, runningAction>> ]_vars

\* the call was refused while an action was running and another was pending
C21_Witness ==
    /\ addCall = "invalid"
    /\ runningAction
    /\ pendingActions # <<>>
    /\ Len(pendingActions) < maxPending
    /\ ~waiting

\* C22: an action that actionThread removes from the pending set to run it
\* has reached its targetTime.
C22_NeverBeforeDeadline ==
    [][ inFlight' = inFlight + 1 =>
          \A i \in TakenIn(pendingActions, pendingActions') :
             pendingActions[i].targetTime <= 0 ]_vars

\* an action has been started while the first of the others is not yet due
C22_Witness ==
    /\ inFlight = 1
    /\ schedPc = "run"
    /\ pendingActions # <<>>
    /\ ~IsDue(Head(pendingActions))

\* the time that has passed since the entry was submitted
Elapsed(e) == DelayOf(e) - e.targetTime

\* C23 (as stated): when an action is started, no action that is pending
\* with it was submitted with a smaller delay.
C23_SmallerDelayStartsFirst ==
    [][ inFlight' = inFlight + 1 =>
          \A i \in TakenIn(pendingActions, pendingActions') :
             \A k \in 1..Len(pendingActions) :
                DelayOf(pendingActions[k]) >= DelayOf(pendingActions[i]) ]_vars

\* C23 (amended): when an action is started, no action that is pending with
\* it and was submitted at the same clock time was submitted with a smaller
\* delay.
C23_SmallerDelaySameTimeStartsFirst ==
    [][ inFlight' = inFlight + 1 =>
          \A i \in TakenIn(pendingActions, pendingActions') :
             \A k \in 1..Len(pendingActions) :
                Elapsed(pendingActions[k]) = Elapsed(pendingActions[i]) =>
                   DelayOf(pendingActions[k]) >= DelayOf(pendingActions[i]) ]_vars

\* an action has been started while an action submitted with the largest
\* delay, and due as well, stayed behind
C23_Witness ==
    /\ inFlight = 1
    /\ schedPc = "run"
    /\ pendingActions # <<>>
    /\ DelayOf(Head(pendingActions)) = MaxDelay
    /\ IsDue(Head(pendingActions))

\* ---------------------------------------------------------------------
\* Properties of interruptible: cancellation points, exceptions, handlers
\* ---------------------------------------------------------------------
\* C24: a running thread starts to be cancelled only in a step of
\* interruptionPoint that finds a request pending; handlers are invoked only
\* while the thread is being cancelled; and while it is being cancelled it
\* registers no handler and enters no region.
C24_CancellationIsCooperative ==
    [][ /\ (thrPc = "running" /\ thrPc' = "cancelling") =>
              (cancelPending /\ interruptionPoint)
        /\ Len(ran') > Len(ran) => thrPc = "cancelling"
        /\ thrPc = "cancelling" =>
              /\ onInterruptedFns' = onInterruptedFns
              /\ nextFn' = nextFn
              /\ Len(frames') <= Len(frames) ]_vars

\* a request is pending while the region, which has registered a handler,
\* goes on running and no handler has been invoked
C24_Witness ==
    /\ thrPc = "running"
    /\ cancelPending
    /\ cancelState = "enable"
    /\ frames # <<>>
    /\ frames[Len(frames)].registered # <<>>
    /\ ran = <<>>
    /\ ~delivered

\* C25: an exception thrown by the body leaves doCall as the same
\* exception, reaches the caller of interruptible as the same exception,
\* invokes no handler and does not turn into a cancellation.
C25_ExceptionPropagatesUnchanged ==
    [][ (thrPc \in {"throwing", "propagating"}) =>
          /\ ran' = ran
          /\ thrPc' \in {"throwing", "propagating", "running"}
          /\ Len(frames') < Len(frames) =>
                (thrPc' = "propagating" /\ exception' = exception)
          /\ thrPc' = "running" =>
                (thrPc = "propagating" /\ observed' = exception) ]_vars

\* the caller has caught the exception of a region that had registered a
\* handler, with a cancellation request pending, and no handler was invoked
C25_Witness ==
    /\ thrPc = "running"
    /\ observed = "logic_error"
    /\ frames = <<>>
    /\ onInterruptedFns # <<>>
    /\ cancelPending
    /\ ran = <<>>

\* C26: outside every interruptible region a call of onInterrupted adds no
\* handler to the list.
C26_OutsideRegionNotRegistered ==
    [][ (frames = <<>> /\ frames' = <<>>) =>
           Len(onInterruptedFns') <= Len(onInterruptedFns) ]_vars

\* ---------------------------------------------------------------------
\* Properties of the Condition: what wait and the timed waits return
\* ---------------------------------------------------------------------
\* C27: when wait() has returned, pred() was true at the moment it returned
\* (evaluated with the mutex held).
C27_WaitReturnsOnTruePredicate ==
    \A p \in Callers :
        (condPc[p] = "idle" /\ condKind[p] = "wait" /\ condResult[p] = "void")
            => condPredAtReturn[p]

\* caller 1 has returned from wait() while caller 2, woken with the
\* predicate false, is about to test it
C27_Witness ==
    /\ condPc[1] = "idle" /\ condKind[1] = "wait" /\ condResult[1] = "void"
    /\ condPc[2] = "woken" /\ condKind[2] = "wait"
    /\ ~predValue

\* C28: waitFor / waitUntil return false only from cv_status::timeout.
C28_FalseOnlyAfterTimeout ==
    [][ \A p \in Callers :
          (condPc[p] # "idle" /\ condPc'[p] = "idle" /\ condResult'[p] = "false")
             => condPc[p] = "timedout" ]_vars

C30_LatchReleasedUntilReset ==
    /\ ~hasBeenFreed
    /\ [][ /\ release => hasBeenFreed'
           /\ reset => ~hasBeenFreed'
           /\ \A p \in Callers :
                 /\ (hasBeenFreed /\ ConditionWait(p)) =>
                       (condPc'[p] = "idle" /\ condResult'[p] = "void")
                 /\ (hasBeenFreed /\ ConditionWaitFor(p)) =>
                       (condPc'[p] = "idle" /\ condResult'[p] = "true")
                 /\ ((ConditionWait(p) \/ ConditionWaitWake(p)) /\ condPc'[p] = "idle")
                       => hasBeenFreed ]_vars

\* caller 2 got true from a timed wait, the latch has been reset since, and
\* caller 1 sleeps in wait()
C30_Witness ==
    /\ ~hasBeenFreed
    /\ condPc[2] = "idle" /\ condKind[2] = "timed" /\ condResult[2] = "true"
    /\ condPredAtReturn[2]
    /\ condPc[1] = "blocked" /\ condKind[1] = "wait"

\* the Latch with every caller of wait() scheduled: a caller that cv.wait
\* has woken takes the mutex again and tests the predicate
FairSpecLatch ==
    /\ SpecLatch
    /\ \A p \in Callers : WF_vars(ConditionWaitWake(p))

\* C31: a thread that is inside Latch::wait(), blocked, when release() is
\* called (it has been notified and the latch is released) eventually
\* returns from wait(), whatever release() and reset() calls follow.
C31_ReleasedWaiterReturns ==
    \A p \in Callers :
        (condPc[p] = "woken" /\ condKind[p] = "wait" /\ hasBeenFreed)
            ~> (condPc[p] = "idle")

\* ---------------------------------------------------------------------
\* Properties of the Barrier's threshold
\* ---------------------------------------------------------------------
\* C32: no call of Barrier::wait() returns before n arrivals have been
\* counted since construction or the last reset(): in every step in which
\* a caller of wait() returns, the number of counted arrivals is at least n.
C32_WaitReturnsAfterNArrivals ==
    [][ \A p \in Parties :
          ((BarrierWait(p) \/ BarrierWaitWake(p)) /\ barPc'[p] = "idle")
             => counter' >= n ]_vars

\* C33: once the threshold has been reached the barrier stays released
\* until reset(): while a party that was inside a call when the n-th
\* arrival came has seen no reset() since, the arrival counter is at
\* least n.
C33_ReleasedUntilReset ==
    (\E p \in Parties : barReleased[p]) => counter >= n

\* =====================================================================
\*     ActionQueue, the implementation with the atomic stopping flag
\*                   (action_queue.cpp, second part)
\* =====================================================================
\* stopping is atomic<bool> and the destructor writes it without the mutex.
\* schedPc: "top" and "woken" are before the test of the while loop,
\* "waiting" is after a test that found nothing to do and before cv.wait
\* (the thread holds the mutex), "blocked" is inside cv.wait, "unlocked" is
\* after the locked block without an action, "timed" is inside
\* cv.wait_until(l, nextTargetTime).
OlderOnly ==
    /\ ~aborted
    /\ UNCHANGED <<Others, addCall, waiting, inFlight, waitPc, aborted, raPc,
                   raStopping, raRetried>>

\* runActionThread, the locked block: while (!stopping && empty) cv.wait(l);
\* if (stopping) break; take the first entry when it is due
OlderRunActionThread ==
    /\ OlderOnly
    /\ schedPc \in {"top", "woken"}
    /\ IF ~stopping /\ pendingActions = <<>>
       THEN /\ schedPc' = "waiting"
            /\ UNCHANGED <<pendingActions, runningAction, currentAction>>
       ELSE IF stopping
       THEN /\ schedPc' = "done"
            /\ UNCHANGED <<pendingActions, runningAction, currentAction>>
       ELSE IF IsDue(Head(pendingActions))
       THEN /\ runningAction' = TRUE
            /\ currentAction' = ActionOf(Head(pendingActions))
            /\ pendingActions' = Tail(pendingActions)
            /\ schedPc' = "run"
       ELSE /\ schedPc' = "unlocked"
            /\ UNCHANGED <<pendingActions, runningAction, currentAction>>
    /\ UNCHANGED <<stopping, dtorPc>>

\* cv.wait(l) gives up the mutex and puts the thread to sleep
OlderCvWait ==
    /\ OlderOnly
    /\ schedPc = "waiting"
    /\ schedPc' = "blocked"
    /\ UNCHANGED <<pendingActions, stopping, runningAction, currentAction, dtorPc>>

\* if (haveAction) { currentAction(); runningAction = false; cv.notify_all(); }
OlderCurrentAction ==
    /\ OlderOnly
    /\ schedPc = "run"
    /\ runningAction' = FALSE
    /\ currentAction' = NoAction
    /\ schedPc' = "top"
    /\ UNCHANGED <<pendingActions, stopping, dtorPc>>

\* else if (!stopping) { lock; cv.wait_until(l, nextTargetTime); } else break;
OlderElse ==
    /\ OlderOnly
    /\ schedPc = "unlocked"
    /\ schedPc' = IF stopping THEN "done" ELSE "timed"
    /\ UNCHANGED <<pendingActions, stopping, runningAction, currentAction, dtorPc>>

\* cv.wait_until returns: notified, woken spuriously, or nextTargetTime
\* has come
OlderWaitUntilReturns ==
    /\ OlderOnly
    /\ schedPc = "timed"
    /\ schedPc' = "top"
    /\ UNCHANGED <<pendingActions, stopping, runningAction, currentAction, dtorPc>>

OlderSpuriousWake ==
    /\ OlderOnly
    /\ schedPc = "blocked"
    /\ schedPc' = "woken"
    /\ UNCHANGED <<pendingActions, stopping, runningAction, currentAction, dtorPc>>

\* addActionDetails: if (!stopping) { if (waiting) throw EAGAIN; lock;
\* size() >= maxPending throws EAGAIN; emplace; cv.notify_all(); }
OlderAddActionDetails(delay, id) ==
    /\ OlderOnly
    /\ dtorPc = "none"
    /\ schedPc # "waiting"
    /\ IF addResult(delay) = "ok"
       THEN /\ pendingActions' = emplace(pendingActions, delay, id)
            /\ schedPc' = NotifiedPc(schedPc)
       ELSE UNCHANGED <<pendingActions, schedPc>>
    /\ UNCHANGED <<stopping, runningAction, currentAction, dtorPc>>

\* ~ActionQueue: impl->stopping = true;
OlderDtorStop ==
    /\ OlderOnly
    /\ dtorPc = "none"
    /\ stopping' = TRUE
    /\ dtorPc' = "notify"
    /\ UNCHANGED <<pendingActions, runningAction, schedPc, currentAction>>

\* impl->cv.notify_all();
OlderDtorNotify ==
    /\ OlderOnly
    /\ dtorPc = "notify"
    /\ schedPc' = NotifiedPc(schedPc)
    /\ dtorPc' = "join"
    /\ UNCHANGED <<pendingActions, stopping, runningAction, currentAction>>

\* impl->actionThread.join() returns once the thread has left its loop
OlderDtorJoin ==
    /\ OlderOnly
    /\ dtorPc = "join"
    /\ schedPc = "done"
    /\ dtorPc' = "destroyed"
    /\ UNCHANGED <<pendingActions, stopping, runningAction, schedPc, currentAction>>

OlderActionThreadStep ==
    \/ OlderRunActionThread
    \/ OlderCvWait
    \/ OlderCurrentAction
    \/ OlderElse
    \/ OlderWaitUntilReturns

NextOlder ==
    \/ OlderActionThreadStep
    \/ OlderSpuriousWake
    \/ \E d \in 0..MaxDelay, id \in UserIdentifiers : OlderAddActionDetails(d, id)
    \/ Tick
    \/ OlderDtorStop
    \/ OlderDtorNotify
    \/ OlderDtorJoin

\* actionThread keeps running, the destructor goes on to its notify_all,
\* and the clock advances
FairSpecOlder ==
    /\ Init
    /\ [][NextOlder]_vars
    /\ WF_vars(OlderActionThreadStep)
    /\ WF_vars(OlderDtorNotify)
    /\ WF_vars(Tick)

\* ---------------------------------------------------------------------
\* Termination of the ActionQueue destructor
\* ---------------------------------------------------------------------
\* C34: once the destructor has set stopping and notified, the scheduler
\* thread eventually leaves its loop, so that join returns (or the program
\* has been ended by a failed contract check).
C34_DestructorTerminates ==
    (stopping /\ dtorPc \notin {"none", "notify"}) ~> (schedPc = "done" \/ aborted)

\* ---------------------------------------------------------------------
\* Shutdown of the ActionThread
\* ---------------------------------------------------------------------
\* workerThread keeps running and the destructor goes on to its notify_all
FairSpecActionThread ==
    /\ SpecActionThread
    /\ WF_vars(workerThread)
    /\ WF_vars(atDtorNotify)

\* C35: once the destructor has set stopping and notified, the worker
\* thread eventually ends, so that join returns (or the program has been
\* ended by a failed assertion).
C35_ActionThreadDestructorTerminates ==
    (atDtorPc = "join") ~> (atPc = "done" \/ atAborted)

\* C36: the worker thread leaves its loop only when no task is installed:
\* in the step in which it ends, the slot is empty and no task that it has
\* taken from the slot is left without having been run.
C36_ExitsOnlyWithoutTask ==
    [][ (atPc # "done" /\ atPc' = "done")
           => (atWorker = NoTask /\ atLocal = NoTask) ]_vars

\* =====================================================================
\*        ActionQueue: calls made by the callable that is running
\* =====================================================================
\* the positions of actionThread at which it owns the mutex: inside the
\* block { unique_lock<mutex> l(lock); ... } of runActionThread, and not in
\* wait_until.  "locked" is the position after the lock has been taken;
\* runAction(currentAction) is called after the block has been left.
SchedLockScopeThroughRunAction == {"locked", "run", "plain"}

SchedLockScope == {"locked"}

\* unique_lock<mutex> l(lock) at the top of the loop
lockTop ==
    /\ Running
    /\ schedPc = "top"
    /\ schedPc' = "locked"
    /\ UNCHANGED <<pendingActions, stopping, waiting, runningAction, currentAction,
                   inFlight, waitPc, dtorPc, aborted, raPc, raStopping, raRetried>>

\* the block with the mutex held: test of stopping, wait_until, the take
lockedBlock ==
    /\ Running
    /\ schedPc = "locked"
    /\ IF stopping \/ SchedPredicate
       THEN TakeIfDue
       ELSE /\ schedPc' = "blocked"
            /\ UNCHANGED <<pendingActions, runningAction, currentAction, inFlight>>
    /\ UNCHANGED <<stopping, waiting, waitPc, dtorPc, aborted, raPc, raStopping, raRetried>>

\* the callable that runAction has called calls addAction on the queue
callableAddAction(delay, id) ==
    /\ ~aborted
    /\ schedPc = "plain"
    /\ schedPc \notin SchedLockScope
    /\ IF addResult(delay) = "ok"
       THEN /\ pendingActions' = emplace(pendingActions, delay, id)
            /\ waitPc' = NotifiedWaiters(waitPc)
       ELSE UNCHANGED <<pendingActions, waitPc>>
    /\ addCall' = addResult(delay)
    /\ schedPc' = "plain"
    /\ UNCHANGED <<stopping, waiting, runningAction, currentAction, inFlight,
                   dtorPc, aborted, raPc, raStopping, raRetried>>
    /\ UNCHANGED Others

\* the callable calls cancel on the queue
callableCancel(id) ==
    /\ Running
    /\ schedPc = "plain"
    /\ schedPc \notin SchedLockScope
    /\ pendingActions' = cancelled(pendingActions, id)
    /\ waitPc' = IF Len(cancelled(pendingActions, id)) < Len(pendingActions)
                 THEN NotifiedWaiters(waitPc) ELSE waitPc
    /\ schedPc' = "plain"
    /\ UNCHANGED <<stopping, waiting, runningAction, currentAction, inFlight,
                   dtorPc, aborted, raPc, raStopping, raRetried>>

NextReentrant ==
    \/ lockTop
    \/ lockedBlock
    \/ runActionThreadWake
    \/ runActionStart
    \/ plainActionReturns
    \/ \E d \in 0..MaxDelay, id \in UserIdentifiers : callableAddAction(d, id)
    \/ \E id \in UserIdentifiers : callableCancel(id)
    \/ runActionFinish
    \/ \E d \in 0..MaxDelay, id \in UserIdentifiers :
          schedPc \notin SchedLockScope /\ addAction(d, id)
    \/ \E w \in WaitThreads :
          schedPc \notin SchedLockScope /\ (wait(w) \/ waitWake(w))
    \/ Tick

SpecReentrant == Init /\ [][NextReentrant]_vars

\* C37: while a callable is executing on actionThread the mutex of the
\* queue is not held by that thread, and a call of addAction or cancel that
\* the callable makes on the same queue can proceed and return.
C37_CallableRunsUnlocked ==
    (schedPc = "plain" /\ ~aborted) =>
        /\ schedPc \notin SchedLockScope
        /\ \A d \in 0..MaxDelay, id \in UserIdentifiers : ENABLED callableAddAction(d, id)
        /\ \A id \in UserIdentifiers : ENABLED callableCancel(id)

\* a callable's addAction has returned with success, and an action is
\* pending while a callable is executing
C37_Witness ==
    /\ schedPc = "plain"
    /\ addCall = "ok"
    /\ runningAction
    /\ pendingActions # <<>>

\* ---------------------------------------------------------------------
\* Wake-ups of the Condition
\* ---------------------------------------------------------------------
\* a caller that cv.wait has woken takes the mutex again and tests the
\* predicate
FairSpecCondition ==
    /\ SpecCondition
    /\ \A p \in Callers : WF_vars(ConditionWaitWake(p))

\* C38: no wake-up is lost: a process() that makes the predicate true and
\* whose function returns true leaves no caller asleep, and a caller of
\* wait() that has been woken while the predicate is true eventually
\* returns, unless the predicate is made false again.
C38_NoWakeUpLost ==
    /\ [][ process(TRUE, TRUE) => \A p \in Callers : condPc'[p] # "blocked" ]_vars
    /\ \A p \in Callers :
          (condPc[p] = "woken" /\ condKind[p] = "wait" /\ predValue)
              ~> (condPc[p] = "idle" \/ ~predValue)

\* caller 1 has returned from wait() after a wake-up with the predicate
\* true; caller 2, woken by the same process(), has not yet tested it
C38_Witness ==
    /\ predValue
    /\ condPc[1] = "idle" /\ condKind[1] = "wait" /\ condResult[1] = "void"
    /\ condPc[2] = "woken" /\ condKind[2] = "wait"

\* ---------------------------------------------------------------------
\* The RepeatingAction's wrapper and the user callable
\* ---------------------------------------------------------------------
\* C39: within one execution of the wrapper by the scheduler the user
\* callable is invoked once: it is not invoked again after the
\* re-submission has been rejected with EAGAIN and retried.
C39_UserActionOncePerExecution == ~(schedPc = "user" /\ raRetried)

\* ---------------------------------------------------------------------
\* Nested interruptible regions
\* ---------------------------------------------------------------------
\* C40: a nested region that has been entered and left leaves the handlers
\* of the enclosing region as they were: when a cancellation acted upon in
\* the outermost region unwinds that region, exactly the handlers
\* registered in it are invoked, each once, in the order of registration.
C40_NestedRegionLeavesOuterIntact ==
    [][ (/\ thrPc = "cancelling"
         /\ Len(frames) = 1 /\ Len(frames') = 0
         /\ cancelledRegion = frames[1].registered)
            => ran' = frames[1].registered ]_vars
====
